---- MODULE Spec2Model ----
(***************************************************************************)
(* A model of src/main.py (gh-top-projects): one run of main(), which      *)
(* queries the search API for the match count, pages through the search    *)
(* results, enriches every repository with two sub-requests, writes the    *)
(* CSV file and asks for the final rate limit.  The remote API is the      *)
(* environment: it holds `matches` repositories, serves them 100 a page,   *)
(* and may fail a bounded number of requests.  `events` is the run's       *)
(* observable trace: every request issued and every line printed, in       *)
(* program order.                                                           *)
(***************************************************************************)
EXTENDS Integers, Sequences, FiniteSets

VARIABLES
    pc,              \* position of main(): the step to run next
    args,            \* parsed command line: [count |-> BOOLEAN]
    matches,         \* remote: number of repositories matching the filter
    faults,          \* remote: number of requests it has failed so far
    total_count,     \* main's total_count (line 189)
    all_repos,       \* fetch_repositories' all_repos / main's repos
    page,            \* fetch_repositories' page
    detailed_repos,  \* main's detailed_repos
    output_file,     \* the CSV file: [written, header, rows]
    events           \* trace of requests and prints

vars == <<pc, args, matches, faults, total_count, all_repos, page,
          detailed_repos, output_file, events>>

(***************************** bounds **************************************)
\* Largest number of full pages the remote holds.
MaxPages == 2
\* Small totals 0..MaxSmall are all explored.
MaxSmall == 3
\* The remote fails at most MaxFaults requests in a run.
MaxFaults == 1
\* Only the sub-resources of repositories 1..MaxFlakyRepo can fail.
MaxFlakyRepo == 2

(************************* program constants *******************************)
PerPage == 100
HTTP_OK == 200
ErrorStatuses == {403}

Min(a, b) == IF a < b THEN a ELSE b
Max(a, b) == IF a > b THEN a ELSE b

(***************************** the remote **********************************)
\* Totals the remote may hold: the small ones and those around page ends.
Totals ==
    (0..MaxSmall)
    \cup { p * PerPage - 1 : p \in 1..MaxPages }
    \cup { p * PerPage     : p \in 1..MaxPages }
    \cup { p * PerPage + 1 : p \in 1..MaxPages }

\* A search-result item is identified by its rank in the remote's
\* descending-star order; its "name" is that rank.
StarsOf(i) == 100000 - i

OkResp(tc, items) ==
    [raised |-> "none", status_code |-> HTTP_OK, total_count |-> tc, items |-> items]
ErrResp(s) ==
    [raised |-> "none", status_code |-> s, total_count |-> 0, items |-> <<>>]
Raise(kind) ==
    [raised |-> kind, status_code |-> 0, total_count |-> 0, items |-> <<>>]

IsFault(resp) == resp.raised # "none" \/ resp.status_code # HTTP_OK
NFaults(resp) == IF IsFault(resp) THEN 1 ELSE 0

\* Items of page p (1-based) when the remote holds n matches.
SearchPage(n, p) ==
    LET first == PerPage * (p - 1)
        k     == Min(PerPage, Max(0, n - first))
    IN  [i \in 1..k |-> first + i]

\* The lists the sub-resources of repository i hold.
ContributorsOf(i) == [j \in 1..((i % 3) + 1) |-> j]
CommitsOf(i) == [j \in 1..(i % 4) |-> j]

\* Failures the remote can answer a search-endpoint request with.
SearchFaults(budget) ==
    IF budget > 0
    THEN {ErrResp(s) : s \in ErrorStatuses} \cup {Raise("exception")}
    ELSE {}

\* Failures of a sub-resource request (they carry timeout=10).
DetailFaults(i, budget) ==
    IF budget > 0 /\ i <= MaxFlakyRepo
    THEN {ErrResp(s) : s \in ErrorStatuses} \cup {Raise("exception"), Raise("timeout")}
    ELSE {}

(****************************** the trace **********************************)
Req(what, arg, resp) ==
    [ev |-> "request", what |-> what, arg |-> arg,
     res |-> IF resp.raised # "none" THEN resp.raised
             ELSE IF resp.status_code = HTTP_OK THEN "ok" ELSE "status",
     n |-> IF what = "count" THEN resp.total_count ELSE Len(resp.items)]
Prt(what, arg) ==
    [ev |-> "print", what |-> what, arg |-> arg, res |-> "", n |-> 0]

(************************** the program's functions ************************)
\* log_rate_limit_info: one report line.
log_rate_limit_info(resp) == <<Prt("rate_limit", 0)>>

\* get_repo_count's return value.
get_repo_count(resp) ==
    IF resp.status_code = HTTP_OK THEN resp.total_count ELSE 0

\* What get_repo_count prints after its request.
get_repo_count_prints(resp) ==
    log_rate_limit_info(resp)
    \o (IF resp.status_code = HTTP_OK THEN <<>> ELSE <<Prt("error", resp.status_code)>>)

\* Mutant of AfterCount: the early return under --count is missing.
AfterCount_NoReturn(count) == "fetch_repositories"

\* main, lines 192-194: --count reports and returns.
AfterCount(count) == IF count THEN "exit" ELSE "fetch_repositories"

\* Mutant of Extend: the new page is put in front of the earlier ones.
Extend_Prepend(all, repos) == repos \o all

\* all_repos.extend(repos)
Extend(all, repos) == all \o repos

\* Mutant of EndOfPages: a full page also ends the loop.
EndOfPages_Inclusive(repos) == Len(repos) <= PerPage

\* len(repos) < 100
EndOfPages(repos) == Len(repos) < PerPage

\* Mutant of FetchIteration: an error response discards what was accumulated.
FetchIteration_DropsPartial(all, pg, resp) ==
    IF resp.status_code = HTTP_OK
    THEN LET acc == all \o resp.items
         IN  [all_repos |-> acc,
              prints    |-> <<Prt("fetched", Len(acc))>>,
              stop      |-> Len(resp.items) < PerPage,
              page      |-> IF Len(resp.items) < PerPage THEN pg ELSE pg + 1]
    ELSE [all_repos |-> <<>>,
          prints    |-> <<Prt("error", resp.status_code)>>,
          stop      |-> TRUE,
          page      |-> pg]

\* One iteration of fetch_repositories' loop on the response to page pg.
FetchIteration(all, pg, resp) ==
    IF resp.status_code = HTTP_OK
    THEN LET acc == Extend(all, resp.items)
         IN  [all_repos |-> acc,
              prints    |-> <<Prt("fetched", Len(acc))>>,
              stop      |-> EndOfPages(resp.items),
              page      |-> IF EndOfPages(resp.items) THEN pg ELSE pg + 1]
    ELSE [all_repos |-> all,
          prints    |-> <<Prt("error", resp.status_code)>>,
          stop      |-> TRUE,
          page      |-> pg]

\* Mutant of NoRepos: the empty result is not detected.
NoRepos_Never(repos) == FALSE

\* main, line 201: `if not repos`.
NoRepos(repos) == repos = <<>>

\* One sub-request of fetch_additional_details: the count it yields.
DetailCount(resp) ==
    IF resp.raised = "none" /\ resp.status_code = HTTP_OK THEN Len(resp.items) ELSE 0

\* What one sub-request of fetch_additional_details prints.
DetailPrints(what, repo, resp) ==
    IF resp.raised # "none" THEN <<Prt(what, repo)>> ELSE <<>>

\* Mutant of fetch_additional_details: one try block around both
\* sub-requests, so a failed contributors request leaves both counts at 0.
fetch_additional_details_OneTry(cresp, mresp) ==
    IF cresp.raised = "none" /\ cresp.status_code = HTTP_OK
    THEN [contributors_count    |-> Len(cresp.items),
          commits_last_3_months |->
              IF mresp.raised = "none" /\ mresp.status_code = HTTP_OK
              THEN Len(mresp.items) ELSE 0]
    ELSE [contributors_count |-> 0, commits_last_3_months |-> 0]

\* fetch_additional_details' return value.
fetch_additional_details(cresp, mresp) ==
    [contributors_count    |-> DetailCount(cresp),
     commits_last_3_months |-> DetailCount(mresp)]

\* main, lines 210-219.
DetailedRepo(repo, details) ==
    [name |-> repo, stars |-> StarsOf(repo),
     contributors_count    |-> details.contributors_count,
     commits_last_3_months |-> details.commits_last_3_months]

\* Mutant of EnrichDone: the loop is left after the first repository.
EnrichDone_AfterFirst(rows, repos) == Len(rows) >= 1

\* main's for loop is over once every repo has its row.
EnrichDone(rows, repos) == Len(rows) = Len(repos)

\* save_to_csv
Fieldnames ==
    <<"name", "stars", "forks", "url", "description", "archived",
      "contributors_count", "commits_last_3_months">>
save_to_csv(rows) == [written |-> TRUE, header |-> Fieldnames, rows |-> rows]

(******************************* actions ***********************************)
Init ==
    /\ pc = "parse_args"
    /\ args = [count |-> FALSE]
    /\ matches \in Totals
    /\ faults = 0
    /\ total_count = 0
    /\ all_repos = <<>>
    /\ page = 1
    /\ detailed_repos = <<>>
    /\ output_file = [written |-> FALSE, header |-> <<>>, rows |-> <<>>]
    /\ events = <<>>

\* main, lines 157-186.
ParseArgs ==
    /\ pc = "parse_args"
    /\ \E c \in BOOLEAN : args' = [count |-> c]
    /\ pc' = "get_repo_count"
    /\ UNCHANGED <<matches, faults, total_count, all_repos, page,
                   detailed_repos, output_file, events>>

\* main, lines 189-194, with the call of get_repo_count.
MainGetRepoCount ==
    /\ pc = "get_repo_count"
    /\ \E resp \in {OkResp(matches, <<>>)} \cup SearchFaults(MaxFaults - faults) :
         /\ faults' = faults + NFaults(resp)
         /\ IF resp.raised # "none"
            THEN /\ events' = Append(events, Req("count", 0, resp))
                 /\ pc' = "aborted"
                 /\ UNCHANGED total_count
            ELSE /\ total_count' = get_repo_count(resp)
                 /\ events' = events \o <<Req("count", 0, resp)>>
                                \o get_repo_count_prints(resp)
                                \o (IF args.count
                                    THEN <<Prt("total", get_repo_count(resp))>>
                                    ELSE <<Prt("fetching", 0)>>)
                 /\ pc' = AfterCount(args.count)
    /\ UNCHANGED <<args, matches, all_repos, page, detailed_repos, output_file>>

\* fetch_repositories, lines 84-96: one iteration of the loop.
FetchPage ==
    /\ pc = "fetch_repositories"
    /\ \E resp \in {OkResp(matches, SearchPage(matches, page))}
                     \cup SearchFaults(MaxFaults - faults) :
         /\ faults' = faults + NFaults(resp)
         /\ IF resp.raised # "none"
            THEN /\ events' = Append(events, Req("search", page, resp))
                 /\ pc' = "aborted"
                 /\ UNCHANGED <<all_repos, page>>
            ELSE LET it == FetchIteration(all_repos, page, resp)
                 IN  /\ all_repos' = it.all_repos
                     /\ page' = it.page
                     /\ events' = events \o <<Req("search", page, resp)>> \o it.prints
                     /\ pc' = IF it.stop THEN "check_repos" ELSE "fetch_repositories"
    /\ UNCHANGED <<args, matches, total_count, detailed_repos, output_file>>

\* main, lines 198-207: fetch_repositories has returned.
CheckRepos ==
    /\ pc = "check_repos"
    /\ IF NoRepos(all_repos)
       THEN /\ events' = Append(events, Prt("no_repos", 0))
            /\ pc' = "exit"
       ELSE /\ events' = Append(events, Prt("processing", 0))
            /\ pc' = IF EnrichDone(detailed_repos, all_repos)
                     THEN "save_to_csv" ELSE "enrich"
    /\ UNCHANGED <<args, matches, faults, total_count, all_repos, page,
                   detailed_repos, output_file>>

\* main, lines 208-221: one iteration, with the call of
\* fetch_additional_details (lines 101-132).
EnrichRepo ==
    /\ pc = "enrich"
    /\ LET index == Len(detailed_repos) + 1
           repo  == all_repos[index]
       IN  \E cresp \in {OkResp(0, ContributorsOf(repo))}
                          \cup DetailFaults(repo, MaxFaults - faults) :
           \E mresp \in {OkResp(0, CommitsOf(repo))}
                          \cup DetailFaults(repo, MaxFaults - faults - NFaults(cresp)) :
             LET rows == Append(detailed_repos,
                                DetailedRepo(repo, fetch_additional_details(cresp, mresp)))
             IN  /\ faults' = faults + NFaults(cresp) + NFaults(mresp)
                 /\ detailed_repos' = rows
                 /\ events' = events
                       \o <<Req("contributors", repo, cresp)>>
                       \o DetailPrints("error_contributors", repo, cresp)
                       \o <<Req("commits", repo, mresp)>>
                       \o DetailPrints("error_commits", repo, mresp)
                       \o <<Prt("processed", index)>>
                 /\ pc' = IF EnrichDone(rows, all_repos) THEN "save_to_csv" ELSE "enrich"
    /\ UNCHANGED <<args, matches, total_count, all_repos, page, output_file>>

\* main, lines 224-226, with the call of save_to_csv (lines 135-152).
SaveToCsv ==
    /\ pc = "save_to_csv"
    /\ output_file' = save_to_csv(detailed_repos)
    /\ events' = events \o <<Prt("saving", 0), Prt("completed", 0)>>
    /\ pc' = "display_final_rate_limit"
    /\ UNCHANGED <<args, matches, faults, total_count, all_repos, page, detailed_repos>>

\* main, line 229: display_final_rate_limit (lines 36-52).
DisplayFinalRateLimit ==
    /\ pc = "display_final_rate_limit"
    /\ \E resp \in {OkResp(0, <<>>)} \cup SearchFaults(MaxFaults - faults) :
         /\ faults' = faults + NFaults(resp)
         /\ IF resp.raised # "none"
            THEN /\ events' = Append(events, Req("rate_limit", 0, resp))
                 /\ pc' = "aborted"
            ELSE /\ events' = events \o <<Req("rate_limit", 0, resp)>>
                       \o (IF resp.status_code = HTTP_OK
                           THEN <<Prt("final_rate_limit", 0)>>
                           ELSE <<Prt("final_rate_limit_unavailable", 0)>>)
                 /\ pc' = "exit"
    /\ UNCHANGED <<args, matches, total_count, all_repos, page, detailed_repos, output_file>>

Next ==
    \/ ParseArgs
    \/ MainGetRepoCount
    \/ FetchPage
    \/ CheckRepos
    \/ EnrichRepo
    \/ SaveToCsv
    \/ DisplayFinalRateLimit

Spec == Init /\ [][Next]_vars

(***************************************************************************)
(* Reading the trace.                                                      *)
(***************************************************************************)
Last(s) == s[Len(s)]
Requests == SelectSeq(events, LAMBDA e : e.ev = "request")
SearchReqs == SelectSeq(events, LAMBDA e : e.ev = "request" /\ e.what = "search")
ContributorsReqs ==
    SelectSeq(events, LAMBDA e : e.ev = "request" /\ e.what = "contributors")
CommitsReqs == SelectSeq(events, LAMBDA e : e.ev = "request" /\ e.what = "commits")
AllSearchOk == \A i \in 1..Len(SearchReqs) : SearchReqs[i].res = "ok"
SearchRefused == \E i \in 1..Len(SearchReqs) : SearchReqs[i].res = "status"
CeilDiv(a, b) == (a + b - 1) \div b
\* The remote's pages 1..k, one after the other.
RECURSIVE Pages(_, _)
Pages(n, k) == IF k = 0 THEN <<>> ELSE Pages(n, k - 1) \o SearchPage(n, k)
Terminal == pc \in {"exit", "aborted"}

(***************************************************************************)
(* C1                                                                      *)
(***************************************************************************)
\* C1 as stated: when fetch_repositories returns after only successful
\* responses, it has issued exactly ceil(matches/100) search requests, for
\* pages 1, 2, ... in order, and the last one returned matches mod 100 items
\* (100 when matches is a positive multiple of 100).
C1_CeilRequests ==
    (pc = "check_repos" /\ AllSearchOk) =>
        LET k == Len(SearchReqs)
        IN  /\ k = CeilDiv(matches, PerPage)
            /\ \A i \in 1..k : SearchReqs[i].arg = i
            /\ SearchReqs[k].n = IF matches % PerPage = 0 THEN PerPage
                                 ELSE matches % PerPage

\* C1 amended: the loop never issues more than floor(matches/100) + 1 search
\* requests, and when it returns after only successful responses it has
\* issued exactly floor(matches/100) + 1 of them, for pages 1, 2, ... in
\* order, every one but the last returning 100 items and the last one
\* returning matches mod 100 items (0 when matches is a multiple of 100).
C1_FloorPlusOneRequests ==
    /\ pc \in {"fetch_repositories", "check_repos"} =>
           /\ Len(SearchReqs) <= (matches \div PerPage) + 1
           /\ pc = "fetch_repositories" => page = Len(SearchReqs) + 1
    /\ (pc = "check_repos" /\ AllSearchOk) =>
           LET k == Len(SearchReqs)
           IN  /\ k = (matches \div PerPage) + 1
               /\ \A i \in 1..k : SearchReqs[i].arg = i
               /\ \A i \in 1..(k - 1) : SearchReqs[i].n = PerPage
               /\ SearchReqs[k].n = matches % PerPage

\* The fetcher has returned from a remote holding a positive multiple of 100
\* matches, the last page requested being the empty one.
C1_Witness ==
    /\ pc = "check_repos" /\ AllSearchOk
    /\ matches >= PerPage /\ matches % PerPage = 0
    /\ Len(SearchReqs) = (matches \div PerPage) + 1
    /\ Last(SearchReqs).n = 0

(***************************************************************************)
(* C2                                                                      *)
(***************************************************************************)
\* C2: a search request answered with a non-200 status is followed at once
\* by the error line carrying that status, is the last search request of the
\* run, leaves all_repos equal to the pages served before it, does not abort
\* the run (only a raised exception does), and a non-empty partial result is
\* enriched and exported row for row.
C2_PartialResultOnError ==
    /\ pc = "aborted" => Last(events).ev = "request" /\ Last(events).res = "exception"
    /\ (pc \in {"check_repos", "exit"} /\ SearchRefused) =>
           LET k == Len(SearchReqs)
           IN  /\ \A i \in 1..(k - 1) : SearchReqs[i].res = "ok"
               /\ SearchReqs[k].res = "status"
               /\ all_repos = Pages(matches, k - 1)
               /\ \E j \in 1..(Len(events) - 1) :
                      /\ events[j].ev = "request" /\ events[j].what = "search"
                      /\ events[j].res = "status"
                      /\ events[j + 1].ev = "print" /\ events[j + 1].what = "error"
                      /\ events[j + 1].arg \in ErrorStatuses
               /\ (pc = "exit" /\ all_repos # <<>>) =>
                      /\ output_file.written
                      /\ Len(output_file.rows) = Len(all_repos)
                      /\ \A r \in 1..Len(all_repos) :
                             output_file.rows[r].name = all_repos[r]
                      /\ Len(ContributorsReqs) = Len(all_repos)

\* A run whose second search page was refused has exported its first page.
C2_Witness ==
    /\ pc = "exit" /\ SearchRefused
    /\ Len(all_repos) = PerPage
    /\ output_file.written /\ Len(output_file.rows) = PerPage

(***************************************************************************)
(* C3                                                                      *)
(***************************************************************************)
\* C3: in the exported file, a repository whose contributors request failed
\* (exception, timeout or non-200) has contributors_count 0 and the commits
\* count of its own commits response, and every repository whose two
\* sub-requests succeeded has the sizes of the two lists it was served.
C3_EnrichmentIsolation ==
    (pc = "exit" /\ output_file.written) =>
        LET rows == output_file.rows
            creq == ContributorsReqs
            mreq == CommitsReqs
        IN  /\ Len(creq) = Len(rows) /\ Len(mreq) = Len(rows)
            /\ \A r \in 1..Len(rows) :
                 /\ creq[r].arg = rows[r].name /\ mreq[r].arg = rows[r].name
                 /\ creq[r].res # "ok" =>
                        /\ rows[r].contributors_count = 0
                        /\ rows[r].commits_last_3_months =
                               IF mreq[r].res = "ok" THEN mreq[r].n ELSE 0
                 /\ (creq[r].res = "ok" /\ mreq[r].res = "ok") =>
                        /\ rows[r].contributors_count = creq[r].n
                        /\ rows[r].commits_last_3_months = mreq[r].n
                        /\ creq[r].n = Len(ContributorsOf(rows[r].name))
                        /\ mreq[r].n = Len(CommitsOf(rows[r].name))

\* Repository 2's contributors request failed, its commits request and the
\* requests of repository 1 succeeded with non-empty lists.
C3_Witness ==
    /\ pc = "exit" /\ output_file.written /\ Len(output_file.rows) >= 2
    /\ ContributorsReqs[2].res # "ok" /\ CommitsReqs[2].res = "ok"
    /\ output_file.rows[2].contributors_count = 0
    /\ output_file.rows[2].commits_last_3_months > 0
    /\ ContributorsReqs[1].res = "ok"
    /\ output_file.rows[1].contributors_count > 0

(***************************************************************************)
(* C4                                                                      *)
(***************************************************************************)
\* C4: with --count, once the count query has been made the run is over: its
\* only request is the count query, no file is written, and a run that exits
\* has printed, last, the total_count that get_repo_count returned (the
\* remote's total_count on a 200, 0 otherwise).
C4_CountOnly ==
    (args.count /\ pc \notin {"parse_args", "get_repo_count"}) =>
        /\ Terminal
        /\ ~output_file.written
        /\ all_repos = <<>> /\ detailed_repos = <<>>
        /\ Len(Requests) = 1 /\ Requests[1].what = "count"
        /\ pc = "exit" =>
               /\ Last(events) = Prt("total", total_count)
               /\ total_count = IF Requests[1].res = "ok" THEN matches ELSE 0

\* A --count run against a non-empty remote has printed the total and exited.
C4_Witness ==
    /\ args.count /\ pc = "exit" /\ matches > PerPage
    /\ Last(events) = Prt("total", matches)

(***************************************************************************)
(* C5                                                                      *)
(***************************************************************************)
\* C5: when fetch_repositories returns the empty list, the run never enters
\* enrichment or export, issues no contributors or commits request, writes
\* no file, and exits (not aborts) right after printing "No repositories
\* found".
C5_EmptyResult ==
    (~args.count /\ all_repos = <<>> /\ pc \notin {"parse_args", "get_repo_count",
                                                   "fetch_repositories", "aborted"}) =>
        /\ pc \in {"check_repos", "exit"}
        /\ ~output_file.written
        /\ detailed_repos = <<>>
        /\ Len(ContributorsReqs) = 0 /\ Len(CommitsReqs) = 0
        /\ pc = "exit" => Last(events) = Prt("no_repos", 0)

\* A run whose first page was empty has exited on the "no repositories" line.
C5_Witness ==
    /\ ~args.count /\ pc = "exit" /\ all_repos = <<>>
    /\ Len(SearchReqs) = 1 /\ SearchReqs[1].res = "ok" /\ SearchReqs[1].n = 0
    /\ Last(events) = Prt("no_repos", 0)

(***************************************************************************)
(* C6                                                                      *)
(***************************************************************************)
\* C6: when every search request succeeded, the fetcher returns the remote's
\* items 1..matches, each once and in the remote's order, and a finished run
\* has written the header and one row per fetched repository in that order.
C6_AllItemsInOrder ==
    (pc \in {"check_repos", "exit"} /\ ~args.count /\ AllSearchOk) =>
        /\ all_repos = [i \in 1..matches |-> i]
        /\ all_repos = Pages(matches, Len(SearchReqs))
        /\ (pc = "exit" /\ matches > 0) =>
               /\ output_file.written
               /\ output_file.header = Fieldnames
               /\ Len(output_file.rows) = matches
               /\ \A r \in 1..matches :
                      /\ output_file.rows[r].name = r
                      /\ output_file.rows[r].stars = StarsOf(r)
               /\ \A r \in 1..(matches - 1) :
                      output_file.rows[r].stars >= output_file.rows[r + 1].stars

\* A finished run over more than one page of results.
C6_Witness ==
    /\ pc = "exit" /\ AllSearchOk /\ output_file.written
    /\ matches > PerPage /\ Len(output_file.rows) = matches

(***************************************************************************)
(* C7                                                                      *)
(***************************************************************************)
\* C7: at every point after the count query, the number of repositories
\* accumulated by fetch_repositories never exceeds the total_count that
\* get_repo_count returned in the same run.  get_repo_count returns 0 for
\* a refused query and main fetches all the same, so the bound breaks.
C7_NeverExceedsReported ==
    pc \notin {"parse_args", "get_repo_count"} => Len(all_repos) <= total_count

(***************************************************************************)
(* C8                                                                      *)
(***************************************************************************)
\* C8: every failed contributors or commits request (exception, timeout or
\* non-200) is followed by its error line before anything else happens, its
\* count is 0, and the run goes on to the next sub-request.
C8_EveryFailureLogged ==
    pc = "exit" =>
        \A j \in 1..Len(events) :
            (/\ events[j].ev = "request"
             /\ events[j].what \in {"contributors", "commits"}
             /\ events[j].res # "ok") =>
                /\ j < Len(events)
                /\ events[j + 1].ev = "print"
                /\ events[j + 1].what \in {"error_contributors", "error_commits"}

(***************************************************************************)
(* C9                                                                      *)
(***************************************************************************)
\* C9: every answered count, search, contributors or commits request is
\* followed by a rate-limit report before the next request.
C9_ReportAfterEveryRequest ==
    pc \in {"check_repos", "exit"} =>
        \A j \in 1..Len(events) :
            (/\ events[j].ev = "request"
             /\ events[j].what \in {"count", "search", "contributors", "commits"}
             /\ events[j].res \in {"ok", "status"}) =>
                /\ j < Len(events)
                /\ events[j + 1] = Prt("rate_limit", 0)

(***************************************************************************)
(* C10                                                                     *)
(***************************************************************************)
Rank(p) ==
    CASE p = "parse_args" -> 0
      [] p = "get_repo_count" -> 1
      [] p = "fetch_repositories" -> 2
      [] p = "check_repos" -> 3
      [] p = "enrich" -> 4
      [] p = "save_to_csv" -> 5
      [] p = "display_final_rate_limit" -> 6
      [] OTHER -> 7
ReqPhase(e) ==
    CASE e.what = "count" -> 1
      [] e.what = "search" -> 2
      [] e.what \in {"contributors", "commits"} -> 4
      [] OTHER -> 6

\* The requests of a finished run: the count query, the search pages, then
\* for each fetched repository in turn one contributors and one commits
\* request, then (after the file is written) the rate-limit status request;
\* and the file is written only once every fetched repository has its row.
C10_Shape ==
    /\ output_file.written =>
           /\ Len(detailed_repos) = Len(all_repos)
           /\ output_file.rows = detailed_repos
           /\ Rank(pc) >= 6
    /\ Rank(pc) < 4 => detailed_repos = <<>>
    /\ Terminal =>
           LET rq == Requests
               s  == Len(SearchReqs)
               d  == Len(detailed_repos)
           IN  /\ \A i \in 1..(Len(rq) - 1) : ReqPhase(rq[i]) <= ReqPhase(rq[i + 1])
               /\ Len(ContributorsReqs) = d /\ Len(CommitsReqs) = d
               /\ Len(rq) >= 1 + s + 2 * d
               /\ \A r \in 1..d :
                      /\ rq[1 + s + 2 * r - 1].what = "contributors"
                      /\ rq[1 + s + 2 * r - 1].arg = all_repos[r]
                      /\ rq[1 + s + 2 * r].what = "commits"
                      /\ rq[1 + s + 2 * r].arg = all_repos[r]
               /\ Len(rq) <= 2 + s + 2 * d
               /\ Last(rq).what = "rate_limit" => output_file.written

\* C10: the run's position only moves forward through parse_args,
\* get_repo_count, fetch_repositories, check_repos, enrich, save_to_csv,
\* display_final_rate_limit, exit, and its requests and its file write come
\* in the order of those phases (C10_Shape).
C10_PhasesInOrder ==
    /\ [][Rank(pc') >= Rank(pc) /\ (Rank(pc') = Rank(pc) => pc' = pc)]_vars
    /\ []C10_Shape

\* A complete run over at least two repositories, ended by the final
\* rate-limit report.
C10_Witness ==
    /\ pc = "exit" /\ output_file.written /\ Len(all_repos) >= 2
    /\ Last(events) = Prt("final_rate_limit", 0)

====
